---- MODULE Spec2Model ----
(***************************************************************************)
(* BrowserCrawler (src/crawlers/browser_crawler.js): the per-request       *)
(* pipeline that binds one browser page to one crawl attempt, the launch   *)
(* context extender, the session-retirement listener and the navigation    *)
(* hooks.  Every await of the source is a step of its own, so attempts     *)
(* interleave exactly at the suspension points of the code.                *)
(***************************************************************************)
EXTENDS Integers, Sequences, FiniteSets, TLC

\* ------------------------------------------------------------------ bounds
MaxAttempts == 2          \* attempts (calls of _handleRequestFunction) in a run
MaxBrowsers == 2          \* browser controllers the pool may launch
MaxSessions == 2          \* sessions the session pool may hand out
NumPreHooks == 2          \* length of preNavigationHooks
NumPostHooks == 1         \* length of postNavigationHooks

\* The request executor runs attempts as concurrent tasks; two tasks are enough for
\* every interleaving of two attempts, and each task runs attempts one after another.
Attempts == {"task1", "task2"}
Browsers == 1..MaxBrowsers
Sessions == 1..MaxSessions

\* ------------------------------------------------------- program constants
DefaultHandlePageTimeoutSecs == 60
MillisPerSec == 1000

NoSession == 0            \* launchContext.session === undefined
NoPage == 0
NoPageId == "none"        \* no newPage({ id }) call is waiting for this browser

VARIABLES
    crawler,      \* the BrowserCrawler object (fields set by the constructor)
    ctx,          \* crawlingContext and position of each attempt
    browsers,     \* browser controllers of the browser pool, with launch contexts
    sessions,     \* sessions of the session pool
    listeners,    \* SESSION_RETIRED listeners registered on the session pool
    started       \* attempts started so far

vars == <<crawler, ctx, browsers, sessions, listeners, started>>

\* --------------------------------------------------------------- values
\* An optional option is <<>> (undefined) or <<v>>.
OptBool == {<<>>, <<TRUE>>, <<FALSE>>}
Default(opt, d) == IF opt = <<>> THEN d ELSE opt[1]

NoError == [kind |-> "none", arg |-> 0]
Err(k, n) == [kind |-> k, arg |-> n]

\* What the navigation delegate may return: nothing, a value without a status()
\* accessor, or a response object whose status() gives the code.
NoResponse == [kind |-> "null", status |-> 0]
MalformedResponse == [kind |-> "malformed", status |-> 0]
StatusResponse(code) == [kind |-> "object", status |-> code]
StatusCodes == {200, 403}
Responses == {NoResponse, MalformedResponse} \cup {StatusResponse(c) : c \in StatusCodes}

RequestUrl == "request.url"
LivePageUrl == "page.url()"     \* what page.url() gives after the navigation
NoUrl == "undefined"

\* browserPoolOptions, as far as the crawler's launch hooks can tell: the launch
\* context a browser plugin starts from, without or with a proxyUrl of the user
\* (the pre-launch hooks of the user run after _extendLaunchContext, line 325).
UserProxyUrl == 999
PluginLaunchContext == [ launchOptions |-> 0 ]
PluginLaunchContextWithProxyUrl == [ launchOptions |-> 0, proxyUrl |-> UserProxyUrl ]

\* The options the caller may pass (ow has validated their shape).
AllOptions ==
    [ handlePageTimeoutSecs : {<<>>, <<1>>},
      gotoFunction : BOOLEAN,
      persistCookiesPerSession : OptBool,
      useSessionPool : OptBool,
      proxyConfiguration : BOOLEAN,
      browserPoolOptions : {PluginLaunchContext, PluginLaunchContextWithProxyUrl} ]

Options(secs, goto, persist, useSessionPool, proxy, browserPoolOptions) ==
    [ handlePageTimeoutSecs |-> secs, gotoFunction |-> goto,
      persistCookiesPerSession |-> persist, useSessionPool |-> useSessionPool,
      proxyConfiguration |-> proxy, browserPoolOptions |-> browserPoolOptions ]

\* The configurations the crawler is constructed with: every one that asks for
\* cookie persistence (explicitly or by default) without the session pool, and one
\* for each way of running with or without sessions, cookie persistence, a proxy,
\* a proxyUrl of the user, a navigation delegate and a timeout of its own.
OptionsSpace ==
    { o \in AllOptions : o.useSessionPool = <<FALSE>> /\ o.persistCookiesPerSession # <<FALSE>> }
    \cup { Options(<<>>, TRUE, <<>>, <<>>, FALSE, PluginLaunchContext),
           Options(<<1>>, TRUE, <<FALSE>>, <<TRUE>>, TRUE, PluginLaunchContextWithProxyUrl),
           Options(<<>>, TRUE, <<FALSE>>, <<FALSE>>, TRUE, PluginLaunchContext),
           Options(<<>>, FALSE, <<>>, <<>>, FALSE, PluginLaunchContextWithProxyUrl) }

\* ---------------------------------------------------------- constructor
NewCrawler ==
    [ state |-> "new", error |-> NoError,
      handlePageTimeoutSecs |-> 0, handlePageTimeoutMillis |-> 0,
      gotoFunction |-> FALSE, gotoOptions |-> {},
      persistCookiesPerSession |-> FALSE, proxyConfiguration |-> FALSE,
      sessionPool |-> FALSE, browserPool |-> FALSE,
      browserPoolOptions |-> PluginLaunchContext,
      preLaunchHooks |-> <<>>, postLaunchHooks |-> <<>> ]

\* Lines 299-333: the fields, the session pool, the browser pool and its hooks.
ConstructFields(options) ==
    LET secs == Default(options.handlePageTimeoutSecs, DefaultHandlePageTimeoutSecs)
    IN [ NewCrawler EXCEPT
           !.handlePageTimeoutSecs = secs,
           !.handlePageTimeoutMillis = secs * MillisPerSec,
           !.gotoFunction = options.gotoFunction,
           !.gotoOptions = {},
           !.persistCookiesPerSession = Default(options.persistCookiesPerSession, TRUE),
           !.proxyConfiguration = options.proxyConfiguration,
           !.sessionPool = Default(options.useSessionPool, TRUE),
           !.browserPool = TRUE,
           !.browserPoolOptions = options.browserPoolOptions,
           !.preLaunchHooks = <<"_extendLaunchContext">>,
           !.postLaunchHooks = <<"_maybeAddSessionRetiredListener">> ]

\* A constructor that validates the combination only after building the pools.
BrowserCrawlerLateCheck(options) ==
    LET persistCookiesPerSession == Default(options.persistCookiesPerSession, TRUE)
        useSessionPool == Default(options.useSessionPool, TRUE)
    IN IF ~useSessionPool /\ persistCookiesPerSession
       THEN [ ConstructFields(options) EXCEPT
                !.state = "threw", !.error = Err("configuration", 0) ]
       ELSE [ ConstructFields(options) EXCEPT !.state = "ready" ]

\* new BrowserCrawler(options): the object as the constructor leaves it.
BrowserCrawler(options) ==
    LET persistCookiesPerSession == Default(options.persistCookiesPerSession, TRUE)
        useSessionPool == Default(options.useSessionPool, TRUE)
    IN IF ~useSessionPool /\ persistCookiesPerSession
       THEN [ NewCrawler EXCEPT !.state = "threw", !.error = Err("configuration", 0) ]
       ELSE [ ConstructFields(options) EXCEPT !.state = "ready" ]

\* ------------------------------------------------- launch-time components
Has(f, k) == k \in DOMAIN f
Get(f, k, d) == IF k \in DOMAIN f THEN f[k] ELSE d

\* launchContext.extend(fields): copies every given field onto the context.
extend(launchContext, fields) ==
    [ k \in DOMAIN launchContext \cup DOMAIN fields |->
        IF k \in DOMAIN fields THEN fields[k] ELSE launchContext[k] ]

\* proxyConfiguration.newProxyInfo(sessionId): the proxy is a function of the key.
newProxyInfo(sessionId) == [ sessionId |-> sessionId, url |-> 1000 + sessionId ]

\* sessionPool.getSession(): a session that is still usable, either one the pool
\* has handed out before or a new one (the next id).
HandedOut == { s \in Sessions : \E b \in Browsers :
                  browsers[b].state # "none" /\ Get(browsers[b].launchContext, "session", NoSession) = s }
UsableSessions ==
    { s \in Sessions : /\ ~sessions[s].retired
                       /\ \A s0 \in Sessions : s0 < s => (s0 \in HandedOut \/ sessions[s0].retired) }

\* A proxy requested without naming the session.
newProxyInfoKeyNone(session) == NoSession

\* Line 469: the argument of newProxyInfo, the id of the session of this launch
\* (undefined when launchContextExtends.session is).
newProxyInfoKey(session) == session

\* The calls of proxyConfiguration.newProxyInfo one run of _extendLaunchContext
\* makes, each as the key it passes.
newProxyInfoCalls(session) ==
    IF crawler.proxyConfiguration THEN <<newProxyInfoKey(session)>> ELSE <<>>

\* _extendLaunchContext(pageId, launchContext), with `session` the value that
\* getSession() resolved to (NoSession when there is no session pool).
_extendLaunchContext(launchContext, session) ==
    LET withSession == IF crawler.sessionPool THEN [ session |-> session ] ELSE <<>>
        proxyInfo == newProxyInfo(newProxyInfoKey(session))
        withProxyUrl == IF crawler.proxyConfiguration
                        THEN extend(launchContext, [ proxyUrl |-> proxyInfo.url ])
                        ELSE launchContext
        launchContextExtends ==
            IF crawler.proxyConfiguration
            THEN extend(withSession, [ proxyInfo |-> proxyInfo ])
            ELSE withSession
    IN extend(withProxyUrl, launchContextExtends)

\* The launch context the browser pool creates for a launch, before the hooks.
NewLaunchContext == crawler.browserPoolOptions

NewBrowser ==
    [ state |-> "none", launchContext |-> PluginLaunchContext, retireCalls |-> 0, pages |-> 0,
      pageId |-> NoPageId, newProxyInfoCalls |-> <<>> ]

\* browserPool.retireBrowserController(controller): an active controller becomes
\* retired; one that is already retired or closed is left as it is.
retireBrowserController(browser) ==
    IF browser.state = "active" THEN [ browser EXCEPT !.state = "retired" ] ELSE browser

\* A listener that retires its controller whatever session the event names.
listenerNoIdCheck(browser, sessionId) ==
    [ retireBrowserController(browser) EXCEPT
        !.launchContext = extend(@, [ sessionRetired |-> TRUE ]),
        !.retireCalls = @ + 1 ]

\* A listener that acts on the first matching event only.
listenerOnce(browser, sessionId) ==
    IF sessionId = browser.launchContext.session /\ ~Has(browser.launchContext, "sessionRetired")
    THEN [ retireBrowserController(browser) EXCEPT
             !.launchContext = extend(@, [ sessionRetired |-> TRUE ]),
             !.retireCalls = @ + 1 ]
    ELSE browser

\* The listener _maybeAddSessionRetiredListener registers for one controller,
\* run on the event for session `sessionId`.
listener(browser, sessionId) ==
    IF sessionId = browser.launchContext.session
    THEN [ retireBrowserController(browser) EXCEPT
             !.launchContext = extend(@, [ sessionRetired |-> TRUE ]),
             !.retireCalls = @ + 1 ]
    ELSE browser

\* sessionPool.emit(SESSION_RETIRED, session): every registered listener runs,
\* synchronously, before emit returns.
emitSessionRetired(brs, sessionId) ==
    [ b \in Browsers |-> IF b \in listeners THEN listener(brs[b], sessionId) ELSE brs[b] ]

\* A post-launch hook that registers nothing.
_maybeAddSessionRetiredListenerNever(ls, b) == ls

\* _maybeAddSessionRetiredListener(pageId, browserController): the listeners after it.
_maybeAddSessionRetiredListener(ls, b) ==
    IF crawler.sessionPool THEN ls \cup {b} ELSE ls

\* A 'browserClosed' handler that forgets to remove the listener.
onBrowserClosedKeepsListener(ls, b) == ls

\* The 'browserClosed' handler registered at line 494.
onBrowserClosed(ls, b) == ls \ {b}

\* ---------------------------------------------------- the attempt pipeline
preNavigationHooks == [ i \in 1..NumPreHooks |-> i ]
postNavigationHooks == [ i \in 1..NumPostHooks |-> NumPreHooks + i ]
NavigationDelegate == 0       \* the entry of `seen` made by gotoFunction

NewContext ==
    [ pc |-> "idle", page |-> NoPage, session |-> NoSession,
      response |-> NoResponse, gotoOptions |-> {}, gotoOptionsObject |-> "clone",
      hookIdx |-> 0, seen |-> <<>>,
      error |-> NoError, result |-> "pending", closeCalls |-> 0,
      handler |-> "notStarted", markedGood |-> FALSE, cookiesStored |-> FALSE,
      cookiesKey |-> NoUrl, loadedUrl |-> NoUrl, closeThrew |-> FALSE,
      markedGoodRetired |-> FALSE ]

\* _enhanceCrawlingContextWithPageInfo(crawlingContext, page), page of browser b.
_enhanceCrawlingContextWithPageInfo(c, b, launchContext) ==
    [ c EXCEPT !.page = b,
               !.session = Get(launchContext, "session", NoSession) ]

\* An error that leaves _handleRequestFunction before its try block is entered.
Escapes(c, err) == [ c EXCEPT !.pc = "done", !.result = "failed", !.error = err ]

\* An error that is recorded while the pipeline carries on.
RaisesButContinues(c, err) == [ c EXCEPT !.error = err ]

\* An error raised inside the try block: control goes to the finally block.
Raises(c, err) == [ c EXCEPT !.pc = "closing", !.error = err ]

\* _.clone(this.gotoOptions)
clone(object) == { k \in object : TRUE }

\* _executeHooks: the hook at position hookIdx has completed.
HookCompleted(c, hooks, nextStage) ==
    IF c.hookIdx < Len(hooks)
    THEN [ c EXCEPT !.hookIdx = @ + 1 ]
    ELSE [ c EXCEPT !.pc = nextStage, !.hookIdx = 0 ]

\* _executeHooks is called with a list: it awaits its first hook if it has one.
EnterHooks(c, hooks, stage, nextStage) ==
    IF Len(hooks) > 0
    THEN [ c EXCEPT !.pc = stage, !.hookIdx = 1 ]
    ELSE [ c EXCEPT !.pc = nextStage, !.hookIdx = 0 ]

\* A hook or the delegate, called with (crawlingContext, gotoOptions), each given
\* its own copy of the options.
CallWithCopy(c, who) ==
    [ c EXCEPT !.seen = Append(@, [ who |-> who, gotoOptions |-> c.gotoOptions ]) ]

\* The gotoOptions object of a pipeline run, as its callees find it: the clone
\* made for the run, or this.gotoOptions itself when the run was given that.
GivenOptions(c) ==
    IF c.gotoOptionsObject = "template" THEN crawler.gotoOptions ELSE c.gotoOptions

\* A hook or the delegate, called with (crawlingContext, gotoOptions): it reads the
\* options it is given and, being handed the object itself, its writes stay in it.
Call(c, who) ==
    [ c EXCEPT !.seen = Append(@, [ who |-> who, gotoOptions |-> GivenOptions(c) ]),
               !.gotoOptions = IF who = NavigationDelegate \/ c.gotoOptionsObject = "template"
                               THEN @ ELSE @ \cup {who} ]

\* this.gotoOptions after the call of a hook: the hook writes into the object it
\* was given, which is the clone of its run.
gotoOptionsAfterCall(c, who) ==
    IF c.gotoOptionsObject = "template" /\ who # NavigationDelegate
    THEN [ crawler EXCEPT !.gotoOptions = @ \cup {who} ]
    ELSE crawler

\* _handleNavigation handing this.gotoOptions itself to the hooks.
_handleNavigationWithoutClone(c) ==
    EnterHooks([ c EXCEPT !.gotoOptions = crawler.gotoOptions, !.gotoOptionsObject = "template" ],
               preNavigationHooks, "preHooks", "nav")

\* _handleNavigation up to its first await.
_handleNavigation(c) ==
    EnterHooks([ c EXCEPT !.gotoOptions = clone(crawler.gotoOptions), !.gotoOptionsObject = "clone" ],
               preNavigationHooks, "preHooks", "nav")

\* Page acquisition followed by the navigation at once.
AfterAcquireSkipsCookieRestore(c) == _handleNavigation(c)

\* After page acquisition: cookie restore when enabled, else straight to navigation.
AfterAcquire(c) ==
    IF crawler.persistCookiesPerSession
    THEN [ c EXCEPT !.pc = "cookies" ]
    ELSE _handleNavigation(c)

\* session.retireOnBlockedStatusCodes(statusCode): the default blocked set.
blockedStatusCodes == {401, 403, 429}

\* throwOnBlockedRequest(session, statusCode): whether it retires the session and throws.
throwOnBlockedRequest(statusCode) == statusCode \in blockedStatusCodes

\* session.retire(): the session is no longer usable.
retire(ss, s) == [ ss EXCEPT ![s].retired = TRUE ]

\* The url the request asked for, taken as the loaded one.
pageUrlAsRequested == RequestUrl

\* await page.url(), line 452: the url of the live page.
pageUrl == LivePageUrl

\* A response handler that never reaches throwOnBlockedRequest.
_responseHandlerNeverBlocks(c) == FALSE

\* A response handler that calls status() on whatever response it is given:
\* the call raises on a response without the accessor.
_responseHandlerBlocksMalformed(c) ==
    /\ crawler.sessionPool
    /\ c.response.kind # "null"
    /\ c.response.kind = "object" => throwOnBlockedRequest(c.response.status)

\* A response handler that classifies whether or not there is a session pool.
_responseHandlerBlocksWithoutPool(c) ==
    /\ c.response.kind = "object"
    /\ throwOnBlockedRequest(c.response.status)

\* _responseHandler, lines 444-450: whether throwOnBlockedRequest is reached and throws.
_responseHandlerBlocks(c) ==
    /\ crawler.sessionPool
    /\ c.response.kind # "null"
    /\ c.response.kind = "object"
    /\ throwOnBlockedRequest(c.response.status)

\* The message built at line 372, as the number it names.
timeoutMessageInMillis == crawler.handlePageTimeoutMillis

timeoutMessageSeconds == crawler.handlePageTimeoutMillis \div MillisPerSec

TimeoutError == Err("timeout", timeoutMessageSeconds)

\* A handler promise awaited without a timer.
timerNeverArmed(c) == FALSE

\* Lines 369-373: the handler promise is awaited through addTimeoutToPromise, so
\* while the attempt awaits a handler that has not completed, the timer is armed.
timerArmed(c) == c.pc = "handler" /\ c.handler = "running"

\* this.handlePageFunction(crawlingContext) is called and its promise awaited.
StartHandler(c) == [ c EXCEPT !.pc = "handler", !.handler = "running" ]

\* The handler called straight after _responseHandler.
AfterResponseNoCapture(c) == StartHandler(c)

\* After _responseHandler: cookie capture when enabled, else the handler.
AfterResponse(c) ==
    IF crawler.persistCookiesPerSession THEN [ c EXCEPT !.pc = "save" ] ELSE StartHandler(c)

\* The success path without line 375.
AfterHandlerWithoutMarkGood(c) == [ c EXCEPT !.pc = "closing" ]

\* Line 375, reached when the awaited handler promise has resolved: markGood is
\* called on the session the attempt took from the launch context, whatever has
\* happened to that session since (markedGoodRetired: it was retired by then).
AfterHandler(c) ==
    [ c EXCEPT !.pc = "closing",
               !.markedGood = IF c.session # NoSession THEN TRUE ELSE @,
               !.markedGoodRetired = c.session # NoSession /\ sessions[c.session].retired ]

\* A finally block without the inner try/catch: an error of page.close() becomes
\* the error of the attempt.
FinallyCloseErrorPropagates(c, closeThrew) ==
    [ c EXCEPT !.pc = "done", !.closeCalls = @ + 1, !.closeThrew = closeThrew,
               !.error = IF closeThrew THEN Err("close", 0) ELSE @,
               !.result = IF c.error = NoError /\ ~closeThrew THEN "succeeded" ELSE "failed",
               !.response = NoResponse, !.gotoOptions = {}, !.seen = <<>> ]

\* The finally block: page.close() is called and resolves or rejects (closeThrew);
\* its error is caught and only logged, and the attempt settles with the error
\* that was pending, if any.
Finally(c, closeThrew) ==
    [ c EXCEPT !.pc = "done", !.closeCalls = @ + 1, !.closeThrew = closeThrew,
               !.result = IF c.error = NoError THEN "succeeded" ELSE "failed",
               !.response = NoResponse, !.gotoOptions = {}, !.seen = <<>> ]

\* ----------------------------------------------------------------- actions
Init ==
    /\ crawler = NewCrawler
    /\ ctx = [ a \in Attempts |-> NewContext ]
    /\ browsers = [ b \in Browsers |-> NewBrowser ]
    /\ sessions = [ s \in Sessions |-> [ retired |-> FALSE ] ]
    /\ listeners = {}
    /\ started = 0

Construct ==
    /\ crawler.state = "new"
    /\ \E options \in OptionsSpace : crawler' = BrowserCrawler(options)
    /\ UNCHANGED <<ctx, browsers, sessions, listeners, started>>

\* A task is free to run the next attempt: _handleRequestFunction is called with a
\* fresh crawlingContext.
CanStart(a) ==
    /\ crawler.state = "ready"
    /\ ctx[a].pc = "idle"
    /\ started < MaxAttempts

\* browserPool.newPage({ id }) on a browser that is already running.
AcquirePage(a) ==
    /\ CanStart(a)
    /\ \E b \in Browsers :
         /\ browsers[b].state = "active"
         /\ browsers' = [ browsers EXCEPT ![b].pages = @ + 1 ]
         /\ ctx' = [ ctx EXCEPT ![a] = AfterAcquire(
                _enhanceCrawlingContextWithPageInfo(NewContext, b, browsers[b].launchContext)) ]
    /\ started' = started + 1
    /\ UNCHANGED <<crawler, sessions, listeners>>

\* browserPool.newPage({ id }) that has to launch a browser: the pre-launch hook
\* _extendLaunchContext runs (getSession and newProxyInfo have resolved) and the
\* browser starts; newPage stays pending until the browser is up.
AcquirePageLaunching(a) ==
    /\ CanStart(a)
    /\ \E b \in Browsers :
         /\ browsers[b].state = "none"
         /\ \A b0 \in Browsers : b0 < b => browsers[b0].state # "none"
         /\ \E s \in (IF crawler.sessionPool THEN UsableSessions ELSE {NoSession}) :
              browsers' = [ browsers EXCEPT ![b] =
                  [ state |-> "launching",
                    launchContext |-> _extendLaunchContext(NewLaunchContext, s),
                    retireCalls |-> 0, pages |-> 0, pageId |-> a,
                    newProxyInfoCalls |-> newProxyInfoCalls(s) ] ]
    /\ ctx' = [ ctx EXCEPT ![a] = [ NewContext EXCEPT !.pc = "launching" ] ]
    /\ started' = started + 1
    /\ UNCHANGED <<crawler, sessions, listeners>>

\* The browser launched for newPage({ id }) of attempt a is up: the post-launch
\* hook _maybeAddSessionRetiredListener runs with its controller, the controller
\* joins the active ones and newPage resolves with its first page.
BrowserLaunched(a) ==
    /\ ctx[a].pc = "launching"
    /\ \E b \in Browsers :
         /\ browsers[b].state = "launching"
         /\ browsers[b].pageId = a
         /\ browsers' = [ browsers EXCEPT ![b].state = "active", ![b].pages = 1,
                                          ![b].pageId = NoPageId ]
         /\ listeners' = _maybeAddSessionRetiredListener(listeners, b)
         /\ ctx' = [ ctx EXCEPT ![a] = AfterAcquire(
                _enhanceCrawlingContextWithPageInfo(NewContext, b, browsers[b].launchContext)) ]
    /\ UNCHANGED <<crawler, sessions, started>>

\* browserPool.newPage({ id }) rejects: no page, the error leaves the attempt.
AcquirePageFails(a) ==
    /\ CanStart(a)
    /\ ctx' = [ ctx EXCEPT ![a] = Escapes(NewContext, Err("acquire", 0)) ]
    /\ started' = started + 1
    /\ UNCHANGED <<crawler, browsers, sessions, listeners>>

\* Lines 352-355: getPuppeteerCookies and browserController.setCookies.
RestoreCookies(a) ==
    /\ ctx[a].pc = "cookies"
    /\ \/ ctx' = [ ctx EXCEPT ![a] = _handleNavigation(@) ]
       \/ ctx' = [ ctx EXCEPT ![a] = Escapes(@, Err("cookieRestore", 0)) ]
    /\ UNCHANGED <<crawler, browsers, sessions, listeners, started>>

\* One pre-navigation hook runs to its end, or raises.
PreNavigationHook(a) ==
    /\ ctx[a].pc = "preHooks"
    /\ LET h == preNavigationHooks[ctx[a].hookIdx]
       IN /\ \/ ctx' = [ ctx EXCEPT ![a] =
                           HookCompleted(Call(@, h), preNavigationHooks, "nav") ]
             \/ ctx' = [ ctx EXCEPT ![a] = Raises(Call(@, h), Err("hook", h)) ]
          /\ crawler' = gotoOptionsAfterCall(ctx[a], h)
    /\ UNCHANGED <<browsers, sessions, listeners, started>>

\* _navigationHandler: the delegate is missing, raises, or gives its response.
Navigate(a) ==
    /\ ctx[a].pc = "nav"
    /\ IF ~crawler.gotoFunction
       THEN ctx' = [ ctx EXCEPT ![a] = Raises(@, Err("noGotoFunction", 0)) ]
       ELSE \/ \E r \in Responses :
                 ctx' = [ ctx EXCEPT ![a] =
                     EnterHooks([ Call(@, NavigationDelegate) EXCEPT !.response = r ],
                                postNavigationHooks, "postHooks", "response") ]
            \/ ctx' = [ ctx EXCEPT ![a] =
                          Raises(Call(@, NavigationDelegate), Err("navigation", 0)) ]
    /\ UNCHANGED <<crawler, browsers, sessions, listeners, started>>

PostNavigationHook(a) ==
    /\ ctx[a].pc = "postHooks"
    /\ LET h == postNavigationHooks[ctx[a].hookIdx]
       IN /\ \/ ctx' = [ ctx EXCEPT ![a] =
                           HookCompleted(Call(@, h), postNavigationHooks, "response") ]
             \/ ctx' = [ ctx EXCEPT ![a] = Raises(Call(@, h), Err("hook", h)) ]
          /\ crawler' = gotoOptionsAfterCall(ctx[a], h)
    /\ UNCHANGED <<browsers, sessions, listeners, started>>

\* _responseHandler up to its await: throwOnBlockedRequest retires the session
\* (the pool emits SESSION_RETIRED at once) and throws, or nothing happens.
ClassifyResponse(a) ==
    /\ ctx[a].pc = "response"
    /\ IF _responseHandlerBlocks(ctx[a])
       THEN /\ sessions' = retire(sessions, ctx[a].session)
            /\ browsers' = emitSessionRetired(browsers, ctx[a].session)
            /\ ctx' = [ ctx EXCEPT ![a] = Raises(@, Err("blocked", @.response.status)) ]
       ELSE /\ ctx' = [ ctx EXCEPT ![a].pc = "url" ]
            /\ UNCHANGED <<browsers, sessions>>
    /\ UNCHANGED <<crawler, listeners, started>>

\* Line 452: request.loadedUrl = await page.url()
RecordLoadedUrl(a) ==
    /\ ctx[a].pc = "url"
    /\ ctx' = [ ctx EXCEPT ![a] = AfterResponse([ @ EXCEPT !.loadedUrl = pageUrl ]) ]
    /\ UNCHANGED <<crawler, browsers, sessions, listeners, started>>

\* Lines 364-367: getCookies, then session.setPuppeteerCookies(cookies, loadedUrl).
SaveCookies(a) ==
    /\ ctx[a].pc = "save"
    /\ \/ ctx' = [ ctx EXCEPT ![a] = StartHandler(
                [ @ EXCEPT !.cookiesStored = TRUE, !.cookiesKey = ctx[a].loadedUrl ]) ]
       \/ ctx' = [ ctx EXCEPT ![a] = Raises(@, Err("cookieCapture", 0)) ]
    /\ UNCHANGED <<crawler, browsers, sessions, listeners, started>>

\* The promise of handlePageFunction resolves.
HandlerResolves(a) ==
    /\ ctx[a].handler = "running"
    /\ ctx' = [ ctx EXCEPT ![a] =
          IF @.pc = "handler"
          THEN AfterHandler([ @ EXCEPT !.handler = "resolved" ])
          ELSE [ @ EXCEPT !.handler = "resolved" ] ]
    /\ UNCHANGED <<crawler, browsers, sessions, listeners, started>>

\* The promise of handlePageFunction rejects.
HandlerRejects(a) ==
    /\ ctx[a].handler = "running"
    /\ ctx' = [ ctx EXCEPT ![a] =
          IF @.pc = "handler"
          THEN Raises([ @ EXCEPT !.handler = "rejected" ], Err("handler", 0))
          ELSE [ @ EXCEPT !.handler = "rejected" ] ]
    /\ UNCHANGED <<crawler, browsers, sessions, listeners, started>>

\* The timer of addTimeoutToPromise fires first; the handler is not cancelled.
HandlerTimesOut(a) ==
    /\ timerArmed(ctx[a])
    /\ ctx' = [ ctx EXCEPT ![a] = Raises(@, TimeoutError) ]
    /\ UNCHANGED <<crawler, browsers, sessions, listeners, started>>

\* Lines 376-383: page.close() resolves or rejects.
ClosePage(a) ==
    /\ ctx[a].pc = "closing"
    /\ \E closeThrew \in BOOLEAN : ctx' = [ ctx EXCEPT ![a] = Finally(@, closeThrew) ]
    /\ browsers' = [ browsers EXCEPT ![ctx[a].page].pages = @ - 1 ]
    /\ UNCHANGED <<crawler, sessions, listeners, started>>

\* The attempt's promise has settled; the request executor takes the outcome and
\* the crawlingContext is discarded.
Settle(a) ==
    /\ ctx[a].pc = "done"
    /\ ctx' = [ ctx EXCEPT ![a] = NewContext ]
    /\ UNCHANGED <<crawler, browsers, sessions, listeners, started>>

\* The browser pool closes a retired browser that has no open page left; the
\* controller emits 'browserClosed'.
BrowserClosed(b) ==
    /\ browsers[b].state = "retired"
    /\ browsers[b].pages = 0
    /\ browsers' = [ browsers EXCEPT ![b].state = "closed" ]
    /\ listeners' = onBrowserClosed(listeners, b)
    /\ UNCHANGED <<crawler, ctx, sessions, started>>

Next ==
    \/ Construct
    \/ \E a \in Attempts : AcquirePage(a)
    \/ \E a \in Attempts : AcquirePageLaunching(a)
    \/ \E a \in Attempts : BrowserLaunched(a)
    \/ \E a \in Attempts : AcquirePageFails(a)
    \/ \E a \in Attempts : RestoreCookies(a)
    \/ \E a \in Attempts : PreNavigationHook(a)
    \/ \E a \in Attempts : Navigate(a)
    \/ \E a \in Attempts : PostNavigationHook(a)
    \/ \E a \in Attempts : ClassifyResponse(a)
    \/ \E a \in Attempts : RecordLoadedUrl(a)
    \/ \E a \in Attempts : SaveCookies(a)
    \/ \E a \in Attempts : HandlerResolves(a)
    \/ \E a \in Attempts : HandlerRejects(a)
    \/ \E a \in Attempts : HandlerTimesOut(a)
    \/ \E a \in Attempts : ClosePage(a)
    \/ \E a \in Attempts : Settle(a)
    \/ \E b \in Browsers : BrowserClosed(b)

Spec == Init /\ [][Next]_vars

\* The timer of addTimeoutToPromise fires unless the handler completes first, and
\* page.close() settles: the event loop runs every callback that stays due.
FairSpec ==
    /\ Spec
    /\ \A a \in Attempts : WF_vars(HandlerTimesOut(a)) /\ WF_vars(ClosePage(a))

\* ------------------------------------------------------------------ claims
Last(seq) == seq[Len(seq)]

\* C1: for every attempt that acquired a page, whichever stage raises or if none
\* raises, page.close() has been invoked exactly once on that page when the
\* attempt has ended (and never more than once before).
C1_PageClosedExactlyOnce ==
    \A a \in Attempts :
        /\ ctx[a].closeCalls <= 1
        /\ (ctx[a].pc = "done" /\ ctx[a].page # NoPage) => ctx[a].closeCalls = 1

BlockedStatus(c) == c.response.kind = "object" /\ c.response.status \in blockedStatusCodes

\* The attempt is past the synchronous part of _responseHandler.
PastClassification(c) ==
    \/ c.pc \in {"url", "save", "handler"}
    \/ c.pc = "closing" /\ c.error.kind \notin {"hook", "navigation", "noGotoFunction"}

\* C3 as stated: in an attempt whose navigation completed with a response whose
\* status is in the blocked set, the session is retired, the attempt fails with
\* the blocked-response error and the handler is never invoked.
C3_BlockedStatusAlwaysFails ==
    \A a \in Attempts :
        (BlockedStatus(ctx[a]) /\ PastClassification(ctx[a])) =>
            /\ ctx[a].pc = "closing"
            /\ ctx[a].error = Err("blocked", ctx[a].response.status)
            /\ ctx[a].session # NoSession
            /\ sessions[ctx[a].session].retired
            /\ ctx[a].handler = "notStarted"

\* C3 (amended): with the session pool in use, in an attempt whose navigation
\* (post-navigation hooks included) completed with a response whose status is in
\* the blocked set, the session is retired, the attempt fails with the
\* blocked-response error and the handler is never invoked; an attempt that ends
\* with the blocked-response error has failed without invoking the handler.
C3_BlockedWithSessionPool ==
    \A a \in Attempts :
        /\ (crawler.sessionPool /\ BlockedStatus(ctx[a]) /\ PastClassification(ctx[a])) =>
              /\ ctx[a].pc = "closing"
              /\ ctx[a].error = Err("blocked", ctx[a].response.status)
              /\ sessions[ctx[a].session].retired
              /\ ctx[a].handler = "notStarted"
        /\ (ctx[a].error.kind = "blocked") =>
              /\ crawler.sessionPool
              /\ ctx[a].pc \in {"closing", "done"}
              /\ ctx[a].pc = "done" => ctx[a].result = "failed"
              /\ sessions[ctx[a].session].retired
              /\ ctx[a].handler = "notStarted"

C3_Witness ==
    \E a \in Attempts : ctx[a].pc = "done" /\ ctx[a].error.kind = "blocked"

\* C4: an attempt whose handler did not complete within the timeout fails with the
\* timeout error naming the configured number of seconds, never marks its session
\* good, and has closed its page when it ends.
C4_HandlerTimeout ==
    \A a \in Attempts :
        ctx[a].error.kind = "timeout" =>
            /\ ctx[a].error.arg = crawler.handlePageTimeoutSecs
            /\ ctx[a].pc \in {"closing", "done"}
            /\ ~ctx[a].markedGood
            /\ ctx[a].pc = "done" => (ctx[a].result = "failed" /\ ctx[a].closeCalls = 1)

C4_Witness ==
    \E a \in Attempts :
        /\ ctx[a].pc = "done" /\ ctx[a].error.kind = "timeout"
        /\ ctx[a].handler = "running"

\* The callees of one pipeline run, in the order of registration.
Callees == preNavigationHooks \o <<NavigationDelegate>> \o postNavigationHooks

\* C5: in every pipeline run the hooks and the delegate are called one after the
\* other in registration order (each call is one step: the next callee is called
\* only when the previous one has completed), all pre-navigation hooks before the
\* delegate, and every callee is given options that hold the mutation of every hook
\* called before it.
C5_HooksInOrderSeeEarlierMutations ==
    \A a \in Attempts :
        /\ Len(ctx[a].seen) <= Len(Callees)
        /\ \A k \in 1..Len(ctx[a].seen) :
              /\ ctx[a].seen[k].who = Callees[k]
              /\ \A j \in 1..(k - 1) :
                    Callees[j] # NavigationDelegate => Callees[j] \in ctx[a].seen[k].gotoOptions

C5_Witness ==
    \E a \in Attempts :
        /\ Len(ctx[a].seen) = Len(Callees)
        /\ ctx[a].seen[NumPreHooks + 1].gotoOptions = { preNavigationHooks[i] : i \in 1..NumPreHooks }
        /\ NumPreHooks >= 2

\* The step is the blocked classification of attempt a: throwOnBlockedRequest has
\* retired the session of the attempt and the pool has emitted SESSION_RETIRED.
RetirementEvent(a) ==
    /\ ctx[a].pc = "response"
    /\ ctx'[a].pc = "closing"
    /\ ctx'[a].error.kind = "blocked"

BoundSession(b) == Get(browsers[b].launchContext, "session", NoSession)

\* C6 as stated: over any sequence of retirement events the bridge invokes retire
\* on a controller at most once.
C6_RetireInvokedAtMostOnce ==
    \A b \in Browsers : browsers[b].retireCalls <= 1

\* C6 (amended): for each controller whose listener is registered, every
\* retirement event for its bound session sets sessionRetired = true on the launch
\* context and invokes retire on the controller, once per event; the first of them
\* takes the controller out of the active state and the later ones leave its state
\* as it is, so the controller is retired exactly once if at least one matching
\* event arrives.
C6_RetireOncePerMatchingEvent ==
    /\ [][ \A a \in Attempts : RetirementEvent(a) =>
             \A b \in listeners : BoundSession(b) = ctx[a].session =>
                 /\ browsers'[b].retireCalls = browsers[b].retireCalls + 1
                 /\ Has(browsers'[b].launchContext, "sessionRetired")
                 /\ browsers'[b].launchContext.sessionRetired
                 /\ browsers'[b].state = IF browsers[b].state = "active"
                                         THEN "retired" ELSE browsers[b].state ]_vars
    /\ [](\A b \in Browsers :
             /\ browsers[b].retireCalls > 0 => browsers[b].state \in {"retired", "closed"}
             /\ browsers[b].retireCalls > 0 <=> Has(browsers[b].launchContext, "sessionRetired"))

C6_Witness ==
    \E b \in Browsers : browsers[b].retireCalls = 2 /\ browsers[b].state = "retired"

\* C7: a retirement event for a session other than the one a controller is bound
\* to leaves that controller and its launch context as they are.
C7_MismatchedEventHasNoEffect ==
    [][ \A a \in Attempts : RetirementEvent(a) =>
          \A b \in Browsers : BoundSession(b) # ctx[a].session =>
              browsers'[b] = browsers[b] ]_vars

\* Controllers are launched in the order of their ids, so the second one received a
\* matching event while the listener of the first one, bound to another session,
\* was registered.
C7_Witness ==
    \E b1, b2 \in Browsers :
        /\ b1 < b2
        /\ b1 \in listeners
        /\ browsers[b1].state = "active"
        /\ browsers[b1].retireCalls = 0
        /\ browsers[b2].retireCalls > 0
        /\ BoundSession(b1) # BoundSession(b2)

\* C8: once a controller has reported that it closed, its listener is no longer
\* registered and a retirement event for its bound session leaves it as it is.
C8_NoEffectAfterBrowserClosed ==
    /\ [][ \A a \in Attempts : RetirementEvent(a) =>
             \A b \in Browsers :
                 (browsers[b].state = "closed" /\ BoundSession(b) = ctx[a].session) =>
                     browsers'[b] = browsers[b] ]_vars
    /\ [](\A b \in Browsers : browsers[b].state = "closed" => b \notin listeners)

\* Two controllers bound to the same session, launched before its first retirement
\* event: the closed one has missed an event the other one received.
C8_Witness ==
    \E b1, b2 \in Browsers :
        /\ browsers[b1].state = "closed"
        /\ BoundSession(b1) = BoundSession(b2)
        /\ browsers[b2].retireCalls > browsers[b1].retireCalls

NavigationErrors == {"hook", "navigation", "noGotoFunction"}

\* C10: when a pre-navigation hook, the navigation delegate or a post-navigation
\* hook raises, nothing is called after the callee that raised, no later stage
\* runs (no classification result, no loadedUrl, no cookie capture, no handler, no
\* markGood), and the attempt fails with exactly that error.
C10_NavigationErrorAbortsAttempt ==
    /\ [](\A a \in Attempts :
             ctx[a].error.kind \in NavigationErrors =>
                 /\ ctx[a].pc \in {"closing", "done"}
                 /\ ctx[a].handler = "notStarted"
                 /\ ~ctx[a].cookiesStored
                 /\ ~ctx[a].markedGood
                 /\ ctx[a].loadedUrl = NoUrl
                 /\ (ctx[a].pc = "closing" /\ ctx[a].error.kind = "hook") =>
                        Last(ctx[a].seen).who = ctx[a].error.arg
                 /\ (ctx[a].pc = "closing" /\ ctx[a].error.kind = "navigation") =>
                        Last(ctx[a].seen).who = NavigationDelegate
                 /\ ctx[a].pc = "done" => ctx[a].result = "failed")
    /\ [][ \A a \in Attempts :
             (ctx[a].error.kind \in NavigationErrors /\ ctx'[a].pc # "idle") =>
                 ctx'[a].error = ctx[a].error ]_vars

C10_Witness ==
    \E a, a2 \in Attempts :
        /\ ctx[a].pc = "done" /\ ctx[a].error = Err("hook", preNavigationHooks[1])
        /\ ctx[a2].pc = "done" /\ ctx[a2].error.kind = "navigation"

\* The kinds of error an attempt can end with, each raised by a stage before the
\* finally block.
StageErrors ==
    {"cookieRestore", "hook", "navigation", "noGotoFunction", "blocked",
     "cookieCapture", "handler", "timeout", "acquire"}

\* C11: an error raised by page.close() never changes the outcome of the attempt:
\* an attempt whose page.close() raised ends failed with the error of the stage
\* that failed, which is never the close error, or, when no stage failed (the
\* handler resolved in time), ends succeeded with no error.
C11_CloseErrorNeverChangesOutcome ==
    \A a \in Attempts :
        (ctx[a].pc = "done" /\ ctx[a].closeThrew) =>
            /\ ctx[a].closeCalls = 1
            /\ ctx[a].error = NoError \/ ctx[a].error.kind \in StageErrors
            /\ ctx[a].result = (IF ctx[a].error = NoError THEN "succeeded" ELSE "failed")
            /\ ctx[a].error = NoError =>
                  (ctx[a].handler = "resolved" /\ ctx[a].loadedUrl = LivePageUrl)
            /\ ctx[a].handler = "notStarted" => ctx[a].error # NoError

C11_Witness ==
    \E a, a2 \in Attempts :
        /\ ctx[a].pc = "done" /\ ctx[a].closeThrew /\ ctx[a].result = "succeeded"
        /\ ctx[a2].pc = "done" /\ ctx[a2].closeThrew /\ ctx[a2].error.kind = "handler"

\* Every stage of the try block up to and including the handler has completed
\* without error: the handler promise resolved before the timer fired.
AllStagesCompleted(c) ==
    /\ c.pc \in {"closing", "done"}
    /\ c.error = NoError
    /\ c.handler = "resolved"

\* C12: an attempt that has a session has marked it good if and only if every
\* stage up to and including the handler completed without error; an attempt with
\* an error of any stage has not called markGood, and an attempt without a session
\* (no session pool) never calls it.
C12_MarkGoodIffAllStagesCompleted ==
    \A a \in Attempts :
        /\ ctx[a].session # NoSession => (ctx[a].markedGood <=> AllStagesCompleted(ctx[a]))
        /\ ctx[a].error # NoError => ~ctx[a].markedGood
        /\ ctx[a].session = NoSession => ~ctx[a].markedGood
        /\ ctx[a].session # NoSession <=> (crawler.sessionPool /\ ctx[a].page # NoPage)

C12_Witness ==
    \E a, a2 \in Attempts :
        /\ ctx[a].pc = "done" /\ ctx[a].markedGood /\ ctx[a].result = "succeeded"
        /\ ctx[a2].pc = "done" /\ ctx[a2].error.kind = "timeout"
        /\ ctx[a2].handler = "resolved" /\ ctx[a2].session # NoSession

\* browserPool.newPage may serve the next attempt with a page of controller b.
ServesNextAttempt(b) == browsers[b].state = "active"

\* C13: after an attempt has failed as blocked, the next attempt is served by a
\* browser whose launch context holds a session other than the retired one: no
\* controller that newPage may pick for the next attempt is bound to a retired
\* session.
C13_NextAttemptGetsFreshSession ==
    \A b \in Browsers :
        (crawler.sessionPool /\ ServesNextAttempt(b)) => ~sessions[BoundSession(b)].retired

\* C14: the launch-context extender only adds keys: every key that was in the
\* launch context when _extendLaunchContext ran (among them a proxyUrl set by the
\* user) has, in the launch context of the launched browser, the value it had.
C14_ExtenderOnlyAddsKeys ==
    \A b \in Browsers :
        browsers[b].state # "none" =>
            \A k \in DOMAIN NewLaunchContext :
                /\ Has(browsers[b].launchContext, k)
                /\ browsers[b].launchContext[k] = NewLaunchContext[k]

\* C15: with a proxy configuration every launch has requested exactly one
\* ProxyInfo, with the id of the session assigned in that launch as its key (no
\* session id without the session pool), and its launch context holds that
\* ProxyInfo and its url; two launches bound to the same session id have used the
\* same key.  Without a proxy configuration no ProxyInfo is requested or held.
C15_OneProxyInfoKeyedBySession ==
    \A b \in Browsers :
        browsers[b].state # "none" =>
            IF crawler.proxyConfiguration
            THEN /\ browsers[b].newProxyInfoCalls = <<BoundSession(b)>>
                 /\ ~crawler.sessionPool => browsers[b].newProxyInfoCalls = <<NoSession>>
                 /\ crawler.sessionPool => BoundSession(b) \in Sessions
                 /\ Has(browsers[b].launchContext, "proxyInfo")
                 /\ browsers[b].launchContext.proxyInfo = newProxyInfo(BoundSession(b))
                 /\ Has(browsers[b].launchContext, "proxyUrl")
                 /\ browsers[b].launchContext.proxyUrl = browsers[b].launchContext.proxyInfo.url
                 /\ \A b2 \in Browsers :
                       (browsers[b2].state # "none" /\ BoundSession(b2) = BoundSession(b)) =>
                           browsers[b2].newProxyInfoCalls = browsers[b].newProxyInfoCalls
            ELSE /\ browsers[b].newProxyInfoCalls = <<>>
                 /\ ~Has(browsers[b].launchContext, "proxyInfo")

\* Two launches bound to the same session, with a proxy configuration.
C15_Witness ==
    /\ crawler.proxyConfiguration
    /\ \E b1, b2 \in Browsers :
          /\ b1 # b2
          /\ browsers[b1].state # "none" /\ browsers[b2].state # "none"
          /\ BoundSession(b1) = BoundSession(b2)
          /\ BoundSession(b1) # NoSession

\* The positions of an attempt in the order of the source: page acquisition
\* (idle, launching), cookie restore, the navigation pipeline (pre-navigation
\* hooks, delegate, post-navigation hooks), the response handler (classification,
\* loadedUrl), cookie capture, the handler, the finally block, the end.
StageRank ==
    [ idle |-> 0, launching |-> 1, cookies |-> 2, preHooks |-> 3, nav |-> 4,
      postHooks |-> 5, response |-> 6, url |-> 7, save |-> 8, handler |-> 9,
      closing |-> 10, done |-> 11 ]

HookStages == {"preHooks", "postHooks"}

NavigationSucceeded(c) ==
    /\ Len(c.seen) = Len(Callees)
    /\ c.error.kind \notin NavigationErrors

\* C17 as stated: after every successful navigation request.loadedUrl is set to
\* the live page url before the attempt ends, also when the response is then
\* classified as blocked.
C17_LoadedUrlAfterEveryNavigation ==
    \A a \in Attempts :
        (ctx[a].pc = "closing" /\ NavigationSucceeded(ctx[a])) =>
            ctx[a].loadedUrl = LivePageUrl

\* C17 (amended): after a successful navigation whose response is not classified
\* as blocked, request.loadedUrl is set to the live page url (not the requested
\* one) before cookie capture and before the handler is invoked; in an attempt
\* whose response is classified as blocked, and in one whose navigation failed,
\* loadedUrl is left unset.
C17_LoadedUrlUnlessBlocked ==
    \A a \in Attempts :
        /\ (NavigationSucceeded(ctx[a]) /\ ctx[a].pc \in {"save", "handler", "closing"}
               /\ ctx[a].error.kind # "blocked") =>
              ctx[a].loadedUrl = LivePageUrl
        /\ ctx[a].error.kind = "blocked" => ctx[a].loadedUrl = NoUrl
        /\ ctx[a].pc \in {"idle", "launching", "cookies", "preHooks", "nav", "postHooks",
                            "response", "url"} => ctx[a].loadedUrl = NoUrl
        /\ ctx[a].loadedUrl \in {NoUrl, LivePageUrl}

C17_Witness ==
    \E a, a2 \in Attempts :
        /\ ctx[a].pc = "closing" /\ ctx[a].error.kind = "blocked"
        /\ NavigationSucceeded(ctx[a]) /\ ctx[a].loadedUrl = NoUrl
        /\ ctx[a2].pc = "closing" /\ ctx[a2].error.kind = "cookieCapture"
        /\ ctx[a2].loadedUrl = LivePageUrl

\* C18: under fair scheduling of the timer an attempt whose handler was invoked
\* always ends with its page closed, whether or not the handler ever completes;
\* the timeout does not cancel the handler: an attempt in or past its finally
\* block whose handler is still running has failed with the timeout error.
C18_HandlerAttemptTerminates ==
    /\ \A a \in Attempts :
          (ctx[a].pc = "handler") ~> (ctx[a].pc = "done" /\ ctx[a].closeCalls = 1)
    /\ [](\A a \in Attempts :
             (ctx[a].pc \in {"closing", "done"} /\ ctx[a].handler = "running") =>
                 /\ ctx[a].error = TimeoutError
                 /\ ctx[a].pc = "done" => ctx[a].result = "failed")

\* The page was closed while the handler was still in flight.
C18_Witness ==
    \E a \in Attempts :
        /\ ctx[a].pc = "done" /\ ctx[a].closeCalls = 1 /\ ctx[a].result = "failed"
        /\ ctx[a].error = TimeoutError
        /\ ctx[a].handler = "running"

\* The attempt is at or past the response handler with a response that has no
\* status accessor: a value that is not such an object, or no value at all.
NoStatusAccessor(c) ==
    /\ c.response.kind \in {"malformed", "null"}
    /\ c.pc \in {"response", "url", "save", "handler", "closing"}

\* C19: for a navigation response without a status accessor the response handler
\* does nothing but record loadedUrl: its classification step raises no error and
\* leaves every session and every browser controller as it is, the next step of
\* the attempt sets loadedUrl to the live page url, and the attempt goes on to
\* cookie capture (when enabled) and the handler; it never ends with the
\* blocked-response error.
C19_MalformedResponseIsIgnored ==
    /\ [][ \A a \in Attempts :
             (NoStatusAccessor(ctx[a]) /\ ctx'[a] # ctx[a]) =>
                 /\ ctx[a].pc = "response" =>
                       /\ ctx'[a].pc = "url"
                       /\ ctx'[a].error = NoError
                       /\ sessions' = sessions
                       /\ browsers' = browsers
                 /\ ctx[a].pc = "url" =>
                       /\ ctx'[a].loadedUrl = LivePageUrl
                       /\ ctx'[a].error = NoError
                       /\ ctx'[a].pc = (IF crawler.persistCookiesPerSession THEN "save" ELSE "handler")
                 /\ ctx[a].pc = "save" =>
                       \/ ctx'[a].pc = "handler" /\ ctx'[a].handler = "running"
                       \/ ctx'[a].pc = "closing" /\ ctx'[a].error.kind = "cookieCapture" ]_vars
    /\ [](\A a \in Attempts :
             NoStatusAccessor(ctx[a]) =>
                 /\ ctx[a].error.kind # "blocked"
                 /\ ctx[a].handler # "notStarted" => ctx[a].loadedUrl = LivePageUrl)

C19_Witness ==
    \E a \in Attempts :
        /\ ctx[a].response = MalformedResponse
        /\ crawler.sessionPool
        /\ ctx[a].pc = "handler" /\ ctx[a].handler = "running"
        /\ ctx[a].loadedUrl = LivePageUrl
        /\ ~sessions[ctx[a].session].retired

\* The attempt is in its navigation pipeline.
InNavigation(c) == c.pc \in {"preHooks", "nav", "postHooks"}

\* C20: navigation options are isolated per attempt: in every interleaving of
\* pipeline runs every hook and the delegate are given options that hold no
\* mutation but those of the hooks called before them in the same run (the first
\* callee of every run is given the template's content), and this.gotoOptions,
\* the crawler-wide template, stays as the constructor set it.
C20_GotoOptionsIsolatedPerAttempt ==
    /\ [][ crawler.state = "ready" => crawler'.gotoOptions = crawler.gotoOptions ]_vars
    /\ [](/\ crawler.gotoOptions = {}
          /\ \A a \in Attempts :
                /\ \A k \in 1..Len(ctx[a].seen) :
                      ctx[a].seen[k].gotoOptions =
                          { Callees[j] : j \in { i \in 1..(k - 1) : Callees[i] # NavigationDelegate } }
                /\ InNavigation(ctx[a]) =>
                      ctx[a].gotoOptions = { ctx[a].seen[k].who : k \in 1..Len(ctx[a].seen) }
                                              \ {NavigationDelegate})

\* Two attempts in their pipelines at once, one whose hooks have all written to
\* its options and one whose first hook has just been called.
C20_Witness ==
    \E a, a2 \in Attempts :
        /\ InNavigation(ctx[a]) /\ InNavigation(ctx[a2])
        /\ Len(ctx[a].seen) = Len(Callees) - 1
        /\ ctx[a].gotoOptions = { preNavigationHooks[i] : i \in 1..NumPreHooks }
        /\ Len(ctx[a2].seen) = 1
        /\ ctx[a2].gotoOptions = { preNavigationHooks[1] }
        /\ started = MaxAttempts

\* The controllers that have been launched (their post-launch hook has run) and
\* have not reported that they closed.
OpenControllers == { b \in Browsers : browsers[b].state \in {"active", "retired"} }

\* C21: with the session pool, the retirement listeners registered on it are, one
\* each, those of the controllers that have been launched and have not yet
\* reported closed, so their number is the number of these controllers; a
\* listener is added only in the step that completes a launch and removed only in
\* the step in which its controller closes; without the session pool no
\* listener is ever registered.
C21_OneListenerPerOpenController ==
    /\ [](IF crawler.sessionPool
          THEN /\ listeners = OpenControllers
               /\ Cardinality(listeners) = Cardinality(OpenControllers)
          ELSE listeners = {})
    /\ [][ \A b \in Browsers :
             /\ (b \notin listeners /\ b \in listeners') =>
                   (browsers[b].state = "launching" /\ browsers'[b].state = "active")
             /\ (b \in listeners /\ b \notin listeners') =>
                   (b \in OpenControllers /\ browsers'[b].state = "closed") ]_vars

\* A closed controller, whose listener was removed, beside a retired one that is
\* still open and keeps its listener: one listener for two launches.
C21_Witness ==
    /\ crawler.sessionPool
    /\ Cardinality(listeners) = 1
    /\ \E b1, b2 \in Browsers :
          /\ browsers[b1].state = "closed"
          /\ browsers[b2].state = "retired"
          /\ b2 \in listeners

\* The attempt is past the synchronous part of _responseHandler, which skipped
\* the classification: there is no session pool, or the delegate gave no response.
ClassifierSkipped(c) ==
    /\ PastClassification(c)
    /\ ~crawler.sessionPool \/ c.response.kind = "null"

\* C22: without the session pool, or when the delegate returned no response, the
\* response is not classified: the step of the response handler raises nothing
\* and leaves sessions and controllers as they are, the attempt does not fail as
\* blocked, whatever the status of the response, no session is retired without the session pool,
\* loadedUrl is recorded, and the attempt goes on to cookie capture (when enabled)
\* and the handler, so it can only end with an error of these or with none.
C22_NoClassificationWithoutPoolOrResponse ==
    /\ [][ \A a \in Attempts :
             (/\ ctx[a].pc = "response"
              /\ ~crawler.sessionPool \/ ctx[a].response.kind = "null"
              /\ ctx'[a] # ctx[a]) =>
                 /\ ctx'[a].pc = "url"
                 /\ ctx'[a].error = NoError
                 /\ sessions' = sessions
                 /\ browsers' = browsers ]_vars
    /\ [](/\ \A a \in Attempts :
                ClassifierSkipped(ctx[a]) =>
                    /\ ctx[a].error.kind \in {"none", "cookieCapture", "handler", "timeout"}
                    /\ ctx[a].pc # "url" => ctx[a].loadedUrl = LivePageUrl
                    /\ (ctx[a].pc = "closing" /\ ctx[a].error.kind # "cookieCapture") =>
                          ctx[a].handler # "notStarted"
          /\ ~crawler.sessionPool =>
                /\ \A s \in Sessions : ~sessions[s].retired
                /\ \A a \in Attempts :
                      ctx[a].error.kind # "blocked" /\ ctx[a].session = NoSession)

\* Without the session pool: the handler runs on a 403 response in one attempt
\* and after a navigation that gave no response in another.
C22_Witness ==
    /\ ~crawler.sessionPool
    /\ \E a, a2 \in Attempts :
          /\ BlockedStatus(ctx[a]) /\ ctx[a].handler = "running" /\ ctx[a].pc = "handler"
          /\ ctx[a].loadedUrl = LivePageUrl
          /\ ctx[a2].response = NoResponse /\ ctx[a2].pc = "handler"

\* C23: when attempts run concurrently on pages of the same browser, hence with
\* the same session, no attempt calls markGood on the session after another of
\* them has retired it through a blocked classification.
C23_NoMarkGoodAfterRetirement ==
    \A a, a2 \in Attempts :
        (/\ a # a2
         /\ ctx[a].page # NoPage
         /\ ctx[a2].page = ctx[a].page
         /\ ctx[a2].error.kind = "blocked"
         /\ ctx[a].markedGood) => ~ctx[a].markedGoodRetired

====
